---- MODULE Spec2Model ----
(***************************************************************************)
(* Keyboard shortcut engine of cherry-studio: the registry of default      *)
(* shortcut definitions (packages/shared/config/shortcuts.ts), the redux   *)
(* slice that stores the user's overrides (store/shortcuts) and the        *)
(* ShortcutService that parses key events, validates them and merges the   *)
(* definitions with the overrides (renderer/src/services/ShortcutService). *)
(***************************************************************************)
EXTENDS Integers, Sequences, FiniteSets, TLC

VARIABLES
  platform,       \* host platform: isMac <=> "mac", isWin <=> "win"
  userShortcuts,  \* store.getState().shortcuts.userShortcuts
  apiUpdates,     \* lists handed to window.api.shortcuts.update by the last call
  call,           \* the last call made: operation and arguments
  ret             \* what that call returned

vars == <<platform, userShortcuts, apiUpdates, call, ret>>

(***************************************************************************)
(* Bounds of the model.                                                    *)
(***************************************************************************)
\* largest number of overrides the store is let to hold
MaxOverrides == 2
\* longest token sequence handed to the validator on its own
MaxKeys == 3
\* longest key sequence handed to the duplicate test on its own
MaxDupKeys == 2
\* longest key sequence handed to a formatter on its own
MaxFormatKeys == 3
\* longest key sequence over every token the display formatter knows
MaxDisplayKeys == 2

(***************************************************************************)
(* Strings.  TLC cannot index a string, so the spelling of every string    *)
(* the string operations of the code look into is written out here; the   *)
(* operations themselves (slice, the F-key pattern) work on the spelling.  *)
(***************************************************************************)
UpperLetters ==
  {"A","B","C","D","E","F","G","H","I","J","K","L","M",
   "N","O","P","Q","R","S","T","U","V","W","X","Y","Z"}

DigitChars == {"0","1","2","3","4","5","6","7","8","9"}

FnNumbers ==
  {<<"1">>, <<"2">>, <<"3">>, <<"4">>, <<"5">>, <<"6">>, <<"7">>, <<"8">>, <<"9">>,
   <<"1","0">>, <<"1","1">>, <<"1","2">>, <<"1","3">>, <<"1","4">>, <<"1","5">>,
   <<"1","6">>, <<"1","7">>, <<"1","8">>, <<"1","9">>}

\* the grave accent that the code writes as a one-character string; SANY cannot
\* read that character inside a string, so it is written by name
BackquoteChar == "<grave>"

RECURSIVE Implode(_)
Implode(cs) == IF cs = <<>> THEN "" ELSE Head(cs) \o Implode(Tail(cs))

WordSpellings ==
  { <<"C","o","m","m","a","n","d","O","r","C","o","n","t","r","o","l">>,
    <<"C","t","r","l">>, <<"A","l","t">>, <<"M","e","t","a">>, <<"S","h","i","f","t">>,
    <<"S","p","a","c","e">>, <<"E","n","t","e","r">>,
    <<"B","a","c","k","s","p","a","c","e">>, <<"T","a","b">>,
    <<"D","e","l","e","t","e">>, <<"P","a","g","e","U","p">>,
    <<"P","a","g","e","D","o","w","n">>, <<"I","n","s","e","r","t">>,
    <<"H","o","m","e">>, <<"E","n","d">>, <<"A","r","r","o","w","U","p">>,
    <<"A","r","r","o","w","D","o","w","n">>, <<"A","r","r","o","w","L","e","f","t">>,
    <<"A","r","r","o","w","R","i","g","h","t">>,
    <<"B","a","c","k","q","u","o","t","e">>, <<"P","e","r","i","o","d">>,
    <<"N","u","m","p","a","d","E","n","t","e","r">>,
    <<"S","l","a","s","h">>, <<"S","e","m","i","c","o","l","o","n">>,
    <<"B","r","a","c","k","e","t","L","e","f","t">>,
    <<"B","r","a","c","k","e","t","R","i","g","h","t">>,
    <<"B","a","c","k","s","l","a","s","h">>, <<"Q","u","o","t","e">>,
    <<"C","o","m","m","a">>, <<"M","i","n","u","s">>, <<"E","q","u","a","l">>,
    <<"E","s","c","a","p","e">>, <<"S","h","i","f","t","L","e","f","t">>,
    <<"C","o","n","t","r","o","l","L","e","f","t">>, <<"M","e","t","a","L","e","f","t">>,
    <<"A","l","t","L","e","f","t">>, <<"C","a","p","s","L","o","c","k">>,
    <<"F","2","0">>, <<"F">>, <<"F","x">>,
    <<"C","o","m","m","a","n","d">>, <<"C","m","d">>, <<"C","o","n","t","r","o","l">>,
    <<"k">>, <<"c","o","m","m","a","n","d">>,
    <<"=">>, <<"-">>, <<",">>, <<"[">>, <<"]">>, <<BackquoteChar>>, <<".">>, <<>> }

Spellings ==
  WordSpellings
    \cup { <<"K","e","y",c>> : c \in UpperLetters }
    \cup { <<c>> : c \in UpperLetters \cup DigitChars }
    \cup { <<"D","i","g","i","t",d>> : d \in DigitChars }
    \cup { <<"N","u","m","p","a","d",d>> : d \in DigitChars }
    \cup { <<"F">> \o n : n \in FnNumbers }

SpellingOf == [s \in {Implode(cs) : cs \in Spellings} |->
                 CHOOSE cs \in Spellings : Implode(cs) = s]

\* the characters of string s
Chars(s) == SpellingOf[s]

\* s.slice(-1)
SliceLast(s) == LET cs == Chars(s) IN IF cs = <<>> THEN "" ELSE cs[Len(cs)]

RECURSIVE Join(_, _)
\* keys.join(sep)
Join(keys, sep) ==
  IF keys = <<>> THEN ""
  ELSE IF Len(keys) = 1 THEN keys[1]
  ELSE keys[1] \o sep \o Join(Tail(keys), sep)

\* the letters, to change case by position
Alphabet ==
  <<"A","B","C","D","E","F","G","H","I","J","K","L","M",
    "N","O","P","Q","R","S","T","U","V","W","X","Y","Z">>

LowerAlphabet ==
  <<"a","b","c","d","e","f","g","h","i","j","k","l","m",
    "n","o","p","q","r","s","t","u","v","w","x","y","z">>

ToLowerChar(c) ==
  IF \E i \in DOMAIN Alphabet : Alphabet[i] = c
  THEN LowerAlphabet[CHOOSE i \in DOMAIN Alphabet : Alphabet[i] = c]
  ELSE c

ToUpperChar(c) ==
  IF \E i \in DOMAIN LowerAlphabet : LowerAlphabet[i] = c
  THEN Alphabet[CHOOSE i \in DOMAIN LowerAlphabet : LowerAlphabet[i] = c]
  ELSE c

\* s.toLowerCase()
ToLowerCase(s) == LET cs == Chars(s) IN Implode([i \in DOMAIN cs |-> ToLowerChar(cs[i])])

\* s.charAt(0).toUpperCase() + s.slice(1)
Capitalize(s) ==
  LET cs == Chars(s) IN
    IF cs = <<>> THEN "" ELSE Implode(<<ToUpperChar(cs[1])>> \o Tail(cs))

\* xs.some(P): the elements of a sequence
Elems(xs) == {xs[i] : i \in DOMAIN xs}

\* xs.findIndex(s => s.name = name), 1-based, 0 when there is none
FindIndex(xs, name) ==
  IF \E i \in DOMAIN xs : xs[i].name = name
  THEN CHOOSE i \in DOMAIN xs : xs[i].name = name /\ \A j \in 1..(i-1) : xs[j].name # name
  ELSE 0

(***************************************************************************)
(* The registry: defaultShortcutConfigs, in the order of its keys.         *)
(***************************************************************************)
ShortcutNames ==
  << "zoom_in", "zoom_out", "zoom_reset", "show_settings", "show_app", "mini_window",
     "exit_fullscreen", "selection_assistant_toggle", "selection_assistant_select_text",
     "new_topic", "clear_topic", "toggle_new_context", "copy_last_message",
     "toggle_show_assistants", "toggle_show_topics", "search_message_in_chat",
     "search_message" >>

Def(key, enabled, editable) == [key |-> key, enabled |-> enabled, editable |-> editable]

DefOn(key, enabled, editable, platforms) ==
  [key |-> key, enabled |-> enabled, editable |-> editable, platforms |-> platforms]

defaultShortcutConfigs ==
  [ zoom_in |-> Def(<<"CommandOrControl", "=">>, TRUE, FALSE),
    zoom_out |-> Def(<<"CommandOrControl", "-">>, TRUE, FALSE),
    zoom_reset |-> Def(<<"CommandOrControl", "0">>, TRUE, FALSE),
    show_settings |-> Def(<<"CommandOrControl", ",">>, TRUE, FALSE),
    show_app |-> Def(<<>>, FALSE, TRUE),
    mini_window |-> Def(<<"CommandOrControl", "E">>, FALSE, TRUE),
    exit_fullscreen |-> Def(<<"Escape">>, TRUE, FALSE),
    selection_assistant_toggle |-> DefOn(<<>>, FALSE, TRUE, {"win", "mac"}),
    selection_assistant_select_text |-> DefOn(<<>>, FALSE, TRUE, {"win", "mac"}),
    new_topic |-> Def(<<"CommandOrControl", "N">>, TRUE, TRUE),
    clear_topic |-> Def(<<"CommandOrControl", "L">>, TRUE, TRUE),
    toggle_new_context |-> Def(<<"CommandOrControl", "K">>, TRUE, TRUE),
    copy_last_message |-> Def(<<"CommandOrControl", "Shift", "C">>, FALSE, TRUE),
    toggle_show_assistants |-> Def(<<"CommandOrControl", "[">>, TRUE, TRUE),
    toggle_show_topics |-> Def(<<"CommandOrControl", "]">>, TRUE, TRUE),
    search_message_in_chat |-> Def(<<"CommandOrControl", "F">>, TRUE, TRUE),
    search_message |-> Def(<<"CommandOrControl", "Shift", "F">>, TRUE, TRUE) ]

\* defaultShortcutConfigs[name] is defined
HasDefinition(name) == name \in DOMAIN defaultShortcutConfigs

Platforms == {"win", "mac", "linux"}

isMac == platform = "mac"

isWin == platform = "win"

(***************************************************************************)
(* Formatting a key sequence for react-hotkeys-hook.                       *)
(***************************************************************************)
\* the switch of formatShortcutForHotkey on one token
HotkeyToken(k) ==
  LET lower == ToLowerCase(k) IN
    IF lower = "command" THEN "meta"
    ELSE IF lower = "commandorcontrol" THEN (IF isMac THEN "meta" ELSE "ctrl")
    ELSE lower

\* formatShortcutForHotkey joining the tokens the way the display text is joined
formatShortcutForHotkeySpaced(key) == Join([i \in DOMAIN key |-> HotkeyToken(key[i])], " + ")

formatShortcutForHotkey(key) == Join([i \in DOMAIN key |-> HotkeyToken(key[i])], "+")

(***************************************************************************)
(* Formatting a key sequence for the settings page.  The symbols the code  *)
(* writes outside ASCII are written here by their code point.              *)
(***************************************************************************)
CommandSymbol == "<U+2318>"
ControlSymbol == "<U+2303>"
OptionSymbol == "<U+2325>"
ShiftSymbol == "<U+21E7>"
UpArrow == "<U+2191>"
DownArrow == "<U+2193>"
LeftArrow == "<U+2190>"
RightArrow == "<U+2192>"

\* the switch of formatShortcutForDisplay on one token
DisplayToken(k) ==
  CASE k = "CommandOrControl" -> IF isMac THEN CommandSymbol ELSE "Ctrl"
    [] k = "Ctrl" -> IF isMac THEN ControlSymbol ELSE "Ctrl"
    [] k = "Alt" -> IF isMac THEN OptionSymbol ELSE "Alt"
    [] k = "Meta" -> IF isMac THEN CommandSymbol ELSE IF isWin THEN "Win" ELSE "Super"
    [] k = "Shift" -> IF isMac THEN ShiftSymbol ELSE "Shift"
    [] k \in {"Command", "Cmd"} -> IF isMac THEN CommandSymbol ELSE "Ctrl"
    [] k = "Control" -> IF isMac THEN ControlSymbol ELSE "Ctrl"
    [] k = "ArrowUp" -> UpArrow
    [] k = "ArrowDown" -> DownArrow
    [] k = "ArrowLeft" -> LeftArrow
    [] k = "ArrowRight" -> RightArrow
    [] k = "Slash" -> "/"
    [] k = "Semicolon" -> ";"
    [] k = "BracketLeft" -> "["
    [] k = "BracketRight" -> "]"
    [] k = "Backslash" -> "\\"
    [] k = "Quote" -> "'"
    [] k = "Comma" -> ","
    [] k = "Minus" -> "-"
    [] k = "Equal" -> "="
    [] OTHER -> Capitalize(k)

\* formatShortcutForDisplay leaving every unlisted token as it is written
formatShortcutForDisplayAsWritten(key) ==
  Join([i \in DOMAIN key |->
          IF key[i] \in {"k", "C", "Escape"} THEN key[i] ELSE DisplayToken(key[i])], " + ")

formatShortcutForDisplay(key) == Join([i \in DOMAIN key |-> DisplayToken(key[i])], " + ")

(***************************************************************************)
(* Key events and the parser.                                              *)
(***************************************************************************)
KeyEvent(ctrlKey, altKey, metaKey, shiftKey, code) ==
  [ctrlKey |-> ctrlKey, altKey |-> altKey, metaKey |-> metaKey,
   shiftKey |-> shiftKey, code |-> code]

\* the case labels of parseUsableEndKeys, group by group
LastCharCodes ==
  { "Key" \o c : c \in UpperLetters }
    \cup { "Digit" \o d : d \in DigitChars }
    \cup { "Numpad" \o d : d \in DigitChars }

NamedKeyCodes ==
  { "Space", "Enter", "Backspace", "Tab", "Delete", "PageUp", "PageDown", "Insert",
    "Home", "End", "ArrowUp", "ArrowDown", "ArrowLeft", "ArrowRight" }
    \cup { "F" \o Implode(n) : n \in FnNumbers }

PunctuationCodes ==
  { "Slash", "Semicolon", "BracketLeft", "BracketRight", "Backslash", "Quote",
    "Comma", "Minus", "Equal" }

\* the value null: no usable end key
Null == "null"

parseUsableEndKeys(event) ==
  LET code == event.code IN
  CASE code \in LastCharCodes -> SliceLast(code)
    [] code \in NamedKeyCodes -> code
    [] code = "Backquote" -> BackquoteChar
    [] code = "Period" -> "."
    [] code = "NumpadEnter" -> "Enter"
    [] code \in PunctuationCodes -> code
    [] OTHER -> Null

\* keys.push(token) when the flag is set
PushIf(keys, flag, token) == IF flag THEN Append(keys, token) ELSE keys

\* parseKeyboardEventToShortcut without the test of endKey: null is pushed too
parseKeyboardEventToShortcutPushesNull(event) ==
  LET k1 == PushIf(<<>>, event.ctrlKey, IF isMac THEN "Ctrl" ELSE "CommandOrControl")
      k2 == PushIf(k1, event.altKey, "Alt")
      k3 == PushIf(k2, event.metaKey, IF isMac THEN "CommandOrControl" ELSE "Meta")
      k4 == PushIf(k3, event.shiftKey, "Shift")
  IN  Append(k4, parseUsableEndKeys(event))

\* parseKeyboardEventToShortcut with the shift and meta lines exchanged
parseKeyboardEventToShortcutShiftFirst(event) ==
  LET k1 == PushIf(<<>>, event.ctrlKey, IF isMac THEN "Ctrl" ELSE "CommandOrControl")
      k2 == PushIf(k1, event.altKey, "Alt")
      k3 == PushIf(k2, event.shiftKey, "Shift")
      k4 == PushIf(k3, event.metaKey, IF isMac THEN "CommandOrControl" ELSE "Meta")
      endKey == parseUsableEndKeys(event)
  IN  IF endKey # Null /\ endKey # "" THEN Append(k4, endKey) ELSE k4

parseKeyboardEventToShortcut(event) ==
  LET k1 == PushIf(<<>>, event.ctrlKey, IF isMac THEN "Ctrl" ELSE "CommandOrControl")
      k2 == PushIf(k1, event.altKey, "Alt")
      k3 == PushIf(k2, event.metaKey, IF isMac THEN "CommandOrControl" ELSE "Meta")
      k4 == PushIf(k3, event.shiftKey, "Shift")
      endKey == parseUsableEndKeys(event)
  IN  IF endKey # Null /\ endKey # "" THEN Append(k4, endKey) ELSE k4

(***************************************************************************)
(* Validation.                                                             *)
(***************************************************************************)
ModifierTokens == {"CommandOrControl", "Ctrl", "Alt", "Meta", "Shift"}

\* /^F\d+$/.test(key)
IsFnKeyToken(key) ==
  LET cs == Chars(key) IN
    /\ Len(cs) >= 2
    /\ cs[1] = "F"
    /\ \A i \in 2..Len(cs) : cs[i] \in DigitChars

\* isValidShortcut with the pattern /^F\d*$/: the letter F counts as a function key
isValidShortcutLooseFn(keys) ==
  LET hasModifier == \E key \in Elems(keys) : key \in ModifierTokens
      hasNonModifier == \E key \in Elems(keys) : key \notin ModifierTokens
      hasFnKey == \E key \in Elems(keys) :
                    /\ Len(Chars(key)) >= 1
                    /\ Chars(key)[1] = "F"
                    /\ \A i \in 2..Len(Chars(key)) : Chars(key)[i] \in DigitChars
  IN  (hasModifier /\ hasNonModifier /\ Len(keys) >= 2) \/ hasFnKey

isValidShortcut(keys) ==
  LET hasModifier == \E key \in Elems(keys) : key \in ModifierTokens
      hasNonModifier == \E key \in Elems(keys) : key \notin ModifierTokens
      hasFnKey == \E key \in Elems(keys) : IsFnKeyToken(key)
  IN  (hasModifier /\ hasNonModifier /\ Len(keys) >= 2) \/ hasFnKey

\* isDuplicateShortcut without the test s.key.length > 0
isDuplicateShortcutCountsEmpty(shortcuts, newKey, currentName) ==
  \E i \in DOMAIN shortcuts :
    /\ shortcuts[i].name # currentName
    /\ Join(shortcuts[i].key, "+") = Join(newKey, "+")

isDuplicateShortcut(shortcuts, newKey, currentName) ==
  \E i \in DOMAIN shortcuts :
    /\ shortcuts[i].name # currentName
    /\ Len(shortcuts[i].key) > 0
    /\ Join(shortcuts[i].key, "+") = Join(newKey, "+")

(***************************************************************************)
(* The merged view: definition + override.                                 *)
(***************************************************************************)
\* the value undefined
Undefined == [undefined |-> TRUE]

\* getUserShortcutState that never sees what the store holds
getUserShortcutStateStale(us, name) == Undefined

\* userShortcuts.find(s => s.name = name) on the store us
getUserShortcutState(us, name) ==
  LET i == FindIndex(us, name) IN IF i = 0 THEN Undefined ELSE us[i]

\* getShortcut falling back to the default keys when the override's keys are empty
getShortcutEmptyFallsBack(us, name) ==
  IF ~HasDefinition(name) THEN Undefined
  ELSE
    LET definition == defaultShortcutConfigs[name]
        userState == getUserShortcutState(us, name)
    IN  [ name |-> name,
          key |-> IF userState # Undefined /\ userState.key # <<>>
                  THEN userState.key ELSE definition.key,
          enabled |-> IF userState # Undefined THEN userState.enabled ELSE TRUE,
          editable |-> definition.editable ]

getShortcut(us, name) ==
  IF ~HasDefinition(name) THEN Undefined
  ELSE
    LET definition == defaultShortcutConfigs[name]
        userState == getUserShortcutState(us, name)
    IN  [ name |-> name,
          \* userState?.key || definition.key: an array, also an empty one, is truthy
          key |-> IF userState # Undefined THEN userState.key ELSE definition.key,
          \* userState?.enabled ?? true
          enabled |-> IF userState # Undefined THEN userState.enabled ELSE TRUE,
          editable |-> definition.editable ]

\* an argument left out of a call
NoArgument == "<undefined>"

\* isShortcutSupportedOnPlatform(name, platform): the line
\*   platform || isMac ? 'mac' : isWin ? 'win' : 'linux'
\* groups as (platform || isMac) ? 'mac' : (isWin ? 'win' : 'linux')
isShortcutSupportedOnPlatformArg(name, platformArg) ==
  IF ~HasDefinition(name) \/ "platforms" \notin DOMAIN defaultShortcutConfigs[name]
  THEN TRUE
  ELSE
    LET given == platformArg # NoArgument /\ platformArg # ""
        currentPlatform ==
          IF given \/ isMac THEN "mac" ELSE IF isWin THEN "win" ELSE "linux"
    IN  currentPlatform \in defaultShortcutConfigs[name].platforms

\* the call with the platform left out, as getAllShortcuts makes it
isShortcutSupportedOnPlatform(name) == isShortcutSupportedOnPlatformArg(name, NoArgument)

\* lodash orderBy(shortcuts, 'system', 'desc'): a stable sort on the field system,
\* which no Shortcut built by getShortcut carries
HasSystem(s) == "system" \in DOMAIN s /\ s.system = TRUE

\* the sort keyed on the enabled flag, which the store decides
orderByEnabledDesc(shortcuts) ==
  SelectSeq(shortcuts, LAMBDA s : s.enabled) \o SelectSeq(shortcuts, LAMBDA s : ~s.enabled)

orderBySystemDesc(shortcuts) ==
  SelectSeq(shortcuts, HasSystem) \o SelectSeq(shortcuts, LAMBDA s : ~HasSystem(s))

\* getAllShortcuts without the platform filter
getAllShortcutsUnfiltered(us) ==
  LET merged == [i \in DOMAIN ShortcutNames |-> getShortcut(us, ShortcutNames[i])]
      IsDefined(s) == s # Undefined
  IN  orderBySystemDesc(SelectSeq(merged, IsDefined))

getAllShortcuts(us) ==
  LET supported == SelectSeq(ShortcutNames, isShortcutSupportedOnPlatform)
      merged == [i \in DOMAIN supported |-> getShortcut(us, supported[i])]
      \* .filter(Boolean)
      IsDefined(s) == s # Undefined
  IN  orderBySystemDesc(SelectSeq(merged, IsDefined))

isShortcutModified(us, name) ==
  LET userState == getUserShortcutState(us, name) IN
    IF ~HasDefinition(name) THEN FALSE
    ELSE IF userState = Undefined THEN FALSE
    ELSE Join(defaultShortcutConfigs[name].key, "+") # Join(userState.key, "+")

(***************************************************************************)
(* The override store: the reducers of shortcutsSlice.  Every reducer ends *)
(* by handing the serialized store to window.api.shortcuts.update.         *)
(***************************************************************************)
initialState == [userShortcuts |-> <<>>]

getSerializableUserShortcuts(us) ==
  [i \in DOMAIN us |->
     [name |-> us[i].name, key |-> us[i].key, enabled |-> us[i].enabled,
      system |-> FALSE, editable |-> TRUE]]

\* the outcome of a dispatched reducer: the new store and the list it sends
Dispatched(us) ==
  [userShortcuts |-> us, apiUpdates |-> <<getSerializableUserShortcuts(us)>>]

\* the outcome of a call that dispatches nothing
NotDispatched(us) == [userShortcuts |-> us, apiUpdates |-> <<>>]

setUserShortcuts(us, payload) == Dispatched(payload)

\* updateUserShortcut keeping nothing but the entry it was given
updateUserShortcutReplacesAll(us, payload) == Dispatched(<<payload>>)

\* updateUserShortcut pushing the entry without looking for the name
updateUserShortcutAppends(us, payload) == Dispatched(Append(us, payload))

updateUserShortcut(us, payload) ==
  LET existingIndex == FindIndex(us, payload.name) IN
    Dispatched(IF existingIndex >= 1
               THEN [us EXCEPT ![existingIndex] = payload]
               ELSE Append(us, payload))

\* toggleUserShortcut sending the list as it was before the change
toggleUserShortcutSendsOld(us, name) ==
  LET existingIndex == FindIndex(us, name) IN
    [ userShortcuts |->
        IF existingIndex >= 1
        THEN [us EXCEPT ![existingIndex].enabled = ~us[existingIndex].enabled]
        ELSE Append(us, [name |-> name, key |-> <<>>, enabled |-> FALSE]),
      apiUpdates |-> <<getSerializableUserShortcuts(us)>> ]

toggleUserShortcut(us, name) ==
  LET existingIndex == FindIndex(us, name) IN
    Dispatched(IF existingIndex >= 1
               THEN [us EXCEPT ![existingIndex].enabled = ~us[existingIndex].enabled]
               ELSE Append(us, [name |-> name, key |-> <<>>, enabled |-> FALSE]))

resetUserShortcuts(us) == Dispatched(<<>>)

(***************************************************************************)
(* The operations of ShortcutService on the store us.                      *)
(***************************************************************************)
updateShortcutKeys(us, name, key) ==
  IF ~HasDefinition(name) \/ ~defaultShortcutConfigs[name].editable
  THEN NotDispatched(us)
  ELSE
    LET userState == getUserShortcutState(us, name)
        newUserState ==
          [name |-> name, key |-> key,
           enabled |-> IF userState # Undefined THEN userState.enabled ELSE TRUE]
    IN  updateUserShortcut(us, newUserState)

toggleShortcut(us, name) == toggleUserShortcut(us, name)

\* resetShortcut writing the default keys with the flag switched on
resetShortcutEnables(us, name) ==
  IF ~HasDefinition(name) \/ ~defaultShortcutConfigs[name].editable
  THEN NotDispatched(us)
  ELSE updateUserShortcut(us, [name |-> name, key |-> defaultShortcutConfigs[name].key,
                               enabled |-> TRUE])

resetShortcut(us, name) ==
  IF ~HasDefinition(name) \/ ~defaultShortcutConfigs[name].editable
  THEN NotDispatched(us)
  ELSE updateShortcutKeys(us, name, defaultShortcutConfigs[name].key)

clearShortcut(us, name) == updateShortcutKeys(us, name, <<>>)

resetAllShortcuts(us) == resetUserShortcuts(us)

\* handleKeyDownForShortcut writing the keys before it looks for a duplicate
handleKeyDownForShortcutWritesFirst(us, event, name) ==
  LET keys == parseKeyboardEventToShortcut(event) IN
    IF ~isValidShortcut(keys)
    THEN [ret |-> FALSE, out |-> NotDispatched(us)]
    ELSE IF isDuplicateShortcut(getAllShortcuts(us), keys, name)
    THEN [ret |-> FALSE, out |-> updateShortcutKeys(us, name, keys)]
    ELSE [ret |-> TRUE, out |-> updateShortcutKeys(us, name, keys)]

\* the returned value and the outcome on the store
handleKeyDownForShortcut(us, event, name) ==
  LET keys == parseKeyboardEventToShortcut(event) IN
    IF ~isValidShortcut(keys)
    THEN [ret |-> FALSE, out |-> NotDispatched(us)]
    ELSE IF isDuplicateShortcut(getAllShortcuts(us), keys, name)
    THEN [ret |-> FALSE, out |-> NotDispatched(us)]
    ELSE [ret |-> TRUE, out |-> updateShortcutKeys(us, name, keys)]

\* the options getHotkeyConfig takes when the caller passes none
defaultOptions == [preventDefault |-> TRUE, enableOnFormTags |-> TRUE, enabled |-> TRUE]

\* getHotkeyConfig handing out an empty hotkey for a disabled shortcut
getHotkeyConfigEmptyWhenDisabled(us, name) ==
  LET shortcutConfig == getShortcut(us, name)
      enabled == shortcutConfig # Undefined /\ shortcutConfig.enabled
  IN  [ hotkey |-> IF enabled THEN formatShortcutForHotkey(shortcutConfig.key) ELSE "",
        enabled |-> enabled,
        options |-> [ enableOnFormTags |-> defaultOptions.enableOnFormTags,
                      description |-> IF shortcutConfig # Undefined
                                      THEN shortcutConfig.name ELSE NoArgument,
                      enabled |-> enabled ],
        shortcutConfig |-> shortcutConfig ]

\* getHotkeyConfig(name) on the store us, with the default options
getHotkeyConfig(us, name) ==
  LET shortcutConfig == getShortcut(us, name)
      \* !!shortcutConfig?.enabled
      enabled == shortcutConfig # Undefined /\ shortcutConfig.enabled
  IN  [ hotkey |-> IF enabled THEN formatShortcutForHotkey(shortcutConfig.key) ELSE "none",
        enabled |-> enabled,
        options |-> [ enableOnFormTags |-> defaultOptions.enableOnFormTags,
                      \* options.description || shortcutConfig?.name
                      description |-> IF shortcutConfig # Undefined
                                      THEN shortcutConfig.name ELSE NoArgument,
                      enabled |-> enabled ],
        shortcutConfig |-> shortcutConfig ]

(***************************************************************************)
(* The settings page drives the service: one action per operation.         *)
(***************************************************************************)
\* the shortcuts the operations are called on: a fixed one (zoom_in), an editable
\* one with default keys, an editable one restricted to win and mac with none
OpNames == {"zoom_in", "new_topic", "selection_assistant_toggle"}

\* the key presses tried in the shortcut input: control+N, meta+N, a bare letter
\* and a Shift key going down on its own
Events ==
  { KeyEvent(TRUE, FALSE, FALSE, FALSE, "KeyN"),
    KeyEvent(FALSE, FALSE, TRUE, FALSE, "KeyN"),
    KeyEvent(FALSE, FALSE, FALSE, FALSE, "KeyA"),
    KeyEvent(FALSE, FALSE, FALSE, TRUE, "ShiftLeft") }

NoEvent == KeyEvent(FALSE, FALSE, FALSE, FALSE, "")

Call(op, name, event, keys) == [op |-> op, name |-> name, event |-> event, keys |-> keys]

NoCall == Call("none", "", NoEvent, <<>>)

\* the value returned by a function of type void
Void == "void"

Init ==
  /\ platform \in Platforms
  /\ userShortcuts = initialState.userShortcuts
  /\ apiUpdates = <<>>
  /\ call = NoCall
  /\ ret = Void

\* the store takes the outcome out of a service call
Commit(outcome) ==
  \E out \in {outcome} :
    /\ Len(out.userShortcuts) <= MaxOverrides
    /\ userShortcuts' = out.userShortcuts
    /\ apiUpdates' = out.apiUpdates
    /\ UNCHANGED platform

HandleKeyDownForShortcut ==
  \E event \in Events, name \in OpNames :
    \E r \in {handleKeyDownForShortcut(userShortcuts, event, name)} :
      /\ Commit(r.out)
      /\ call' = Call("handleKeyDownForShortcut", name, event, <<>>)
      /\ ret' = r.ret

ToggleShortcut ==
  \E name \in OpNames :
    /\ Commit(toggleShortcut(userShortcuts, name))
    /\ call' = Call("toggleShortcut", name, NoEvent, <<>>)
    /\ ret' = Void

ClearShortcut ==
  \E name \in OpNames :
    /\ Commit(clearShortcut(userShortcuts, name))
    /\ call' = Call("clearShortcut", name, NoEvent, <<>>)
    /\ ret' = Void

ResetShortcut ==
  \E name \in OpNames :
    /\ Commit(resetShortcut(userShortcuts, name))
    /\ call' = Call("resetShortcut", name, NoEvent, <<>>)
    /\ ret' = Void

ResetAllShortcuts ==
  /\ Commit(resetAllShortcuts(userShortcuts))
  /\ call' = Call("resetAllShortcuts", "", NoEvent, <<>>)
  /\ ret' = Void

Next ==
  \/ HandleKeyDownForShortcut
  \/ ToggleShortcut
  \/ ClearShortcut
  \/ ResetShortcut
  \/ ResetAllShortcuts

Spec == Init /\ [][Next]_vars

(***************************************************************************)
(* The parser on its own: Init draws the event, the action parses it.      *)
(***************************************************************************)
\* key codes parseUsableEndKeys has a case for
MappedCodes ==
  LastCharCodes \cup NamedKeyCodes \cup PunctuationCodes
    \cup {"Backquote", "Period", "NumpadEnter"}

\* key codes it has none for: modifier keys going down, and others
UnmappedCodes == {"ShiftLeft", "ControlLeft", "MetaLeft", "AltLeft", "CapsLock", "Escape"}

ParseEvents ==
  { KeyEvent(c, a, m, sh, code) :
      c \in BOOLEAN, a \in BOOLEAN, m \in BOOLEAN, sh \in BOOLEAN,
      code \in MappedCodes \cup UnmappedCodes }

InitParse ==
  /\ platform \in Platforms
  /\ userShortcuts = initialState.userShortcuts
  /\ apiUpdates = <<>>
  /\ call \in { Call("pending", "", event, <<>>) : event \in ParseEvents }
  /\ ret = Void

ParseKeyboardEventToShortcut ==
  /\ call.op = "pending"
  /\ call' = [call EXCEPT !.op = "parseKeyboardEventToShortcut"]
  /\ ret' = parseKeyboardEventToShortcut(call.event)
  /\ UNCHANGED <<platform, userShortcuts, apiUpdates>>

NextParse == ParseKeyboardEventToShortcut

SpecParse == InitParse /\ [][NextParse]_vars

(***************************************************************************)
(* The validator on its own: Init draws the token sequence.                *)
(***************************************************************************)
\* tokens handed to the validator: modifiers, letters, a digit, the letter F,
\* function keys
ValidatorTokens == {"CommandOrControl", "Shift", "Alt", "A", "N", "5", "F", "F5", "F12"}

RECURSIVE SeqsUpTo(_, _)
\* the sequences over S of length at most n
SeqsUpTo(S, n) ==
  IF n = 0 THEN {<<>>}
  ELSE LET shorter == SeqsUpTo(S, n - 1) IN
         shorter \cup { Append(q, x) : q \in shorter, x \in S }

InitValid ==
  /\ platform \in Platforms
  /\ userShortcuts = initialState.userShortcuts
  /\ apiUpdates = <<>>
  /\ call \in { Call("pending", "", NoEvent, keys) : keys \in SeqsUpTo(ValidatorTokens, MaxKeys) }
  /\ ret = Void

IsValidShortcut ==
  /\ call.op = "pending"
  /\ call' = [call EXCEPT !.op = "isValidShortcut"]
  /\ ret' = isValidShortcut(call.keys)
  /\ UNCHANGED <<platform, userShortcuts, apiUpdates>>

NextValid == IsValidShortcut

SpecValid == InitValid /\ [][NextValid]_vars

(***************************************************************************)
(* Toggling only: the store after any number of toggleShortcut calls and   *)
(* nothing else.                                                           *)
(***************************************************************************)
NextToggle == ToggleShortcut

SpecToggle == Init /\ [][NextToggle]_vars

(***************************************************************************)
(* Properties.                                                             *)
(***************************************************************************)
\* the names of the registry
RegistryNames == Elems(ShortcutNames)

\* the shortcuts the definition marks editable = false
NonEditableNames == { n \in RegistryNames : ~defaultShortcutConfigs[n].editable }

\* the overrides the store holds for name
OverridesOf(us, name) == { i \in DOMAIN us : us[i].name = name }

\* the calls that try to change a shortcut
ModifyingOps ==
  {"handleKeyDownForShortcut", "toggleShortcut", "clearShortcut", "resetShortcut"}

\* C1: no two distinct shortcuts of getAllShortcuts() that are both enabled and both
\* have keys hold the same key sequence (equal '+'-joined tokens), after any
\* sequence of service operations from the empty store.
C1_EnabledShortcutsHaveDistinctKeys ==
  LET all == getAllShortcuts(userShortcuts) IN
    \A i, j \in DOMAIN all :
      (i # j /\ all[i].enabled /\ all[j].enabled
         /\ all[i].key # <<>> /\ all[j].key # <<>>)
        => Join(all[i].key, "+") # Join(all[j].key, "+")

\* C2: every attempt to modify a shortcut whose definition has editable = false
\* leaves the override store as it was.
C2_NonEditableIsRefused ==
  [][ (call'.op \in ModifyingOps /\ call'.name \in NonEditableNames)
        => userShortcuts' = userShortcuts ]_vars

\* C3: getShortcut(name) takes keys and enabled from the override when there is one
\* (also when its keys are empty), the default keys when there is none, and
\* editable from the definition always.
C3_GetShortcutMerges ==
  \A name \in RegistryNames :
    LET s == getShortcut(userShortcuts, name)
        overrides == OverridesOf(userShortcuts, name)
    IN  /\ s.editable = defaultShortcutConfigs[name].editable
        /\ overrides = {} => s.key = defaultShortcutConfigs[name].key
        /\ \A i \in overrides :
             (\A j \in overrides : i <= j)
               => s.key = userShortcuts[i].key /\ s.enabled = userShortcuts[i].enabled

\* C3 witness: a shortcut with default keys has an override whose keys are empty.
C3_Witness_EmptyOverrideKeys ==
  \E i \in DOMAIN userShortcuts :
    /\ userShortcuts[i].name = "new_topic"
    /\ userShortcuts[i].key = <<>>
    /\ call.op = "clearShortcut"

\* C4: with no override in the store, getShortcut(name).enabled is the enabled flag
\* of the definition.
C4_EnabledDefaultsToDefinition ==
  \A name \in RegistryNames :
    OverridesOf(userShortcuts, name) = {}
      => getShortcut(userShortcuts, name).enabled = defaultShortcutConfigs[name].enabled

\* C5: isShortcutModified(name) is true iff an override exists whose keys differ from
\* the default keys, and it is false for every name after toggleShortcut calls alone.
C5_TogglingNeverModifies ==
  \A name \in RegistryNames :
    /\ isShortcutModified(userShortcuts, name)
         <=> \E i \in OverridesOf(userShortcuts, name) :
               userShortcuts[i].key # defaultShortcutConfigs[name].key
    /\ ~isShortcutModified(userShortcuts, name)

\* C6: a handleKeyDownForShortcut call that returns false leaves the override store
\* as it was and sends nothing to window.api.shortcuts.update.
C6_RejectedKeyDownChangesNothing ==
  [][ (call'.op = "handleKeyDownForShortcut" /\ ret' = FALSE)
        => (userShortcuts' = userShortcuts /\ apiUpdates' = <<>>) ]_vars

\* C6 witness: a valid key press was rejected as a duplicate while the store held
\* an override.
C6_Witness_DuplicateRejected ==
  /\ call.op = "handleKeyDownForShortcut"
  /\ ret = FALSE
  /\ isValidShortcut(parseKeyboardEventToShortcut(call.event))
  /\ userShortcuts # <<>>

\* C7: whenever handleKeyDownForShortcut returns true, the store holds an override
\* for the name whose keys are the sequence parsed from the event.
C7_TrueMeansUpdated ==
  (call.op = "handleKeyDownForShortcut" /\ ret = TRUE)
    => \E i \in DOMAIN userShortcuts :
         /\ userShortcuts[i].name = call.name
         /\ userShortcuts[i].key = parseKeyboardEventToShortcut(call.event)

\* the flags of an event that are set
FlagsSet(event) ==
  {f \in {"ctrlKey", "altKey", "metaKey", "shiftKey"} : event[f]}

\* C8 as written: a key code with no end-key mapping parses to the empty sequence,
\* whatever the flags.
C8_NoEndKeyGivesEmpty ==
  (call.op = "parseKeyboardEventToShortcut" /\ call.event.code \in UnmappedCodes)
    => ret = <<>>

\* C8 amended: a key code with no end-key mapping parses to the modifier tokens of
\* the flags that are set and no end key: one token per flag, the empty sequence
\* exactly when no flag is set, and never a valid shortcut.
C8_NoEndKeyGivesModifiersOnly ==
  (call.op = "parseKeyboardEventToShortcut" /\ call.event.code \in UnmappedCodes)
    => /\ Elems(ret) \subseteq ModifierTokens
       /\ Len(ret) = Cardinality(FlagsSet(call.event))
       /\ ret = <<>> <=> FlagsSet(call.event) = {}
       /\ ~isValidShortcut(ret)

\* C8 witness: a modifier key went down with its flag set.
C8_Witness_ModifierKeyDown ==
  /\ call.op = "parseKeyboardEventToShortcut"
  /\ call.event = KeyEvent(TRUE, FALSE, FALSE, FALSE, "ControlLeft")
  /\ ret # <<>>

\* the modifier tokens in the order of the claim, each with its flag
ModifierOrder ==
  << <<"ctrlKey", IF platform = "mac" THEN "Ctrl" ELSE "CommandOrControl">>,
     <<"altKey", "Alt">>,
     <<"metaKey", IF platform = "mac" THEN "CommandOrControl" ELSE "Meta">>,
     <<"shiftKey", "Shift">> >>

\* C9: for a key code with an end-key mapping the tokens are, in this order, the
\* control token, Alt, the meta token, Shift (each present iff its flag is set) and
\* the end key; control+shift with Digit5 or Numpad5 off Mac gives
\* [CommandOrControl, Shift, 5].
C9_TokensInFixedOrder ==
  (call.op = "parseKeyboardEventToShortcut" /\ call.event.code \in MappedCodes)
    => LET n == Len(ret)
           present == SelectSeq(ModifierOrder, LAMBDA m : call.event[m[1]])
       IN  /\ n = Len(present) + 1
           /\ \A i \in 1..Len(present) : ret[i] = present[i][2]
           /\ ret[n] \notin ModifierTokens
           /\ ret[n] = parseUsableEndKeys(call.event)
           /\ ( /\ platform # "mac"
                /\ call.event.code \in {"Digit5", "Numpad5"}
                /\ FlagsSet(call.event) = {"ctrlKey", "shiftKey"} )
                => ret = <<"CommandOrControl", "Shift", "5">>

\* C9 witness: all four flags with a mapped key on Mac.
C9_Witness_AllModifiers ==
  /\ call.op = "parseKeyboardEventToShortcut"
  /\ platform = "mac"
  /\ call.event = KeyEvent(TRUE, TRUE, TRUE, TRUE, "Numpad5")
  /\ Len(ret) = 5

\* the function-key tokens F1 .. F19
FunctionKeyTokens == { "F" \o Implode(n) : n \in FnNumbers }

\* the non-modifier tokens of keys, in order
NonModifierPart(keys) == SelectSeq(keys, LAMBDA k : k \notin ModifierTokens)

\* the modifier tokens of keys, in order
ModifierPart(keys) == SelectSeq(keys, LAMBDA k : k \in ModifierTokens)

\* C10 as written: accepted iff there is a modifier, a non-modifier and length >= 2,
\* or the non-modifier part is a single function-key token.
C10_SingleFunctionKeyOnly ==
  call.op = "isValidShortcut"
    => ( ret <=>
           \/ /\ ModifierPart(call.keys) # <<>>
              /\ NonModifierPart(call.keys) # <<>>
              /\ Len(call.keys) >= 2
           \/ /\ Len(NonModifierPart(call.keys)) = 1
              /\ NonModifierPart(call.keys)[1] \in FunctionKeyTokens )

\* C10 amended: accepted iff there is a modifier, a non-modifier and length >= 2, or
\* some token is a function-key token; so [Shift] and [A] are rejected,
\* [CommandOrControl, N], [F5] and [F5, Shift] are accepted, and a
\* sequence of letter and digit tokens alone is never accepted.
C10_AnyFunctionKey ==
  call.op = "isValidShortcut"
    => /\ ret <=>
            \/ /\ ModifierPart(call.keys) # <<>>
               /\ NonModifierPart(call.keys) # <<>>
               /\ Len(call.keys) >= 2
            \/ Elems(call.keys) \cap FunctionKeyTokens # {}
       /\ call.keys \in {<<"Shift">>, <<"A">>} => ~ret
       /\ call.keys \in {<<"CommandOrControl", "N">>, <<"F5">>, <<"F5", "Shift">>} => ret
       /\ Elems(call.keys) \subseteq (UpperLetters \cup DigitChars) => ~ret

\* C10 witness: a function key next to a letter, with no modifier, was accepted.
C10_Witness_FunctionKeyWithLetter ==
  /\ call.op = "isValidShortcut"
  /\ call.keys = <<"F5", "A">>
  /\ ret = TRUE

(***************************************************************************)
(* The duplicate test on its own: Init draws the list of shortcuts, the    *)
(* new keys and the name being edited.                                     *)
(***************************************************************************)
\* tokens of the key sequences compared
DupTokens == {"CommandOrControl", "K", "J"}

DupKeys == SeqsUpTo(DupTokens, MaxDupKeys)

\* a Shortcut as getShortcut builds it
Shortcut(name, key, enabled, editable) ==
  [name |-> name, key |-> key, enabled |-> enabled, editable |-> editable]

\* lists of two shortcuts, as getAllShortcuts returns them: distinct names
DupShortcutLists ==
  { << Shortcut("toggle_new_context", k1, TRUE, TRUE),
       Shortcut("new_topic", k2, TRUE, TRUE) >> : k1 \in DupKeys, k2 \in DupKeys }

\* the argument currentName: a shortcut of the list, or one that is not in it
DupCurrentNames == {"new_topic", "clear_topic"}

\* the three arguments of a call of isDuplicateShortcut
DupArgs(shortcuts, newKey, currentName) ==
  [shortcuts |-> shortcuts, newKey |-> newKey, currentName |-> currentName]

\* the duplicate test reads neither the platform nor the store
InitDup ==
  /\ platform = "win"
  /\ userShortcuts = initialState.userShortcuts
  /\ apiUpdates = <<>>
  /\ call \in { Call("pending", currentName, NoEvent, DupArgs(shortcuts, newKey, currentName)) :
                  shortcuts \in DupShortcutLists, newKey \in DupKeys,
                  currentName \in DupCurrentNames }
  /\ ret = Void

IsDuplicateShortcut ==
  /\ call.op = "pending"
  /\ call' = [call EXCEPT !.op = "isDuplicateShortcut"]
  /\ ret' = isDuplicateShortcut(call.keys.shortcuts, call.keys.newKey, call.keys.currentName)
  /\ UNCHANGED <<platform, userShortcuts, apiUpdates>>

NextDup == IsDuplicateShortcut

SpecDup == InitDup /\ [][NextDup]_vars

\* two key sequences are equal element by element: same length, same token at
\* every position
SameTokens(k1, k2) == Len(k1) = Len(k2) /\ \A j \in 1..Len(k1) : k1[j] = k2[j]

\* C11: isDuplicateShortcut(shortcuts, newKey, currentName) is true iff some shortcut
\* of the list has another name, keys that are not empty and keys equal to newKey
\* element by element; a second shortcut holding [CommandOrControl, K] duplicates a
\* first one holding it, and does not once it holds [CommandOrControl, J].
C11_DuplicateIffSameTokens ==
  call.op = "isDuplicateShortcut"
    => LET a == call.keys IN
         /\ ret <=> \E i \in DOMAIN a.shortcuts :
                      /\ a.shortcuts[i].name # a.currentName
                      /\ Len(a.shortcuts[i].key) > 0
                      /\ SameTokens(a.shortcuts[i].key, a.newKey)
         /\ ( /\ a.shortcuts[1].key = <<"CommandOrControl", "K">>
              /\ a.currentName = "new_topic" )
              => /\ a.newKey = <<"CommandOrControl", "K">> => ret
                 /\ ( /\ a.newKey = <<"CommandOrControl", "J">>
                      /\ a.shortcuts[2].key = a.newKey ) => ~ret

\* C11 witness: the second shortcut is given the keys the first one holds.
C11_Witness_SecondTakesFirstsKeys ==
  /\ call.op = "isDuplicateShortcut"
  /\ call.keys.shortcuts[1].key = <<"CommandOrControl", "K">>
  /\ call.keys.newKey = <<"CommandOrControl", "K">>
  /\ call.keys.currentName = "new_topic"
  /\ ret = TRUE

\* the shortcuts the registry restricts to Windows and Mac
WinMacOnlyNames == {"selection_assistant_toggle", "selection_assistant_select_text"}

\* the names getAllShortcuts() returns
VisibleNames(us) == { s.name : s \in Elems(getAllShortcuts(us)) }

\* C12: on every host platform and in every store state, getAllShortcuts() returns
\* exactly the registry names with no platforms field or with the host in it; the
\* two selection assistant shortcuts are absent on linux, override or not.
C12_VisibleNamesFollowPlatform ==
  /\ VisibleNames(userShortcuts) =
       IF platform \in {"win", "mac"} THEN RegistryNames
       ELSE RegistryNames \ WinMacOnlyNames
  /\ Len(getAllShortcuts(userShortcuts)) = Cardinality(VisibleNames(userShortcuts))

\* C12 witness: on linux the store holds an override with keys for
\* selection_assistant_toggle.
C12_Witness_OverrideOnLinux ==
  /\ platform = "linux"
  /\ \E i \in DOMAIN userShortcuts :
       /\ userShortcuts[i].name = "selection_assistant_toggle"
       /\ userShortcuts[i].key # <<>>

(***************************************************************************)
(* isShortcutSupportedOnPlatform as a function of the name, the platform   *)
(* argument and the host.                                                  *)
(***************************************************************************)
PlatformArgs == Platforms \cup {NoArgument}

PlatformNames == RegistryNames \cup {"not_a_shortcut"}

InitPlatform ==
  /\ platform \in Platforms
  /\ userShortcuts = initialState.userShortcuts
  /\ apiUpdates = <<>>
  /\ call \in { Call("pending", name, NoEvent, platformArg) :
                  name \in PlatformNames, platformArg \in PlatformArgs }
  /\ ret = Void

IsShortcutSupportedOnPlatform ==
  /\ call.op = "pending"
  /\ call' = [call EXCEPT !.op = "isShortcutSupportedOnPlatform"]
  /\ ret' = isShortcutSupportedOnPlatformArg(call.name, call.keys)
  /\ UNCHANGED <<platform, userShortcuts, apiUpdates>>

NextPlatform == IsShortcutSupportedOnPlatform

SpecPlatform == InitPlatform /\ [][NextPlatform]_vars

\* C13: for a definition with a platforms list the result is membership of the
\* given platform in the list; the host platform counts only when the argument is
\* left out.
C13_ExplicitPlatformDecides ==
  (/\ call.op = "isShortcutSupportedOnPlatform"
   /\ HasDefinition(call.name)
   /\ "platforms" \in DOMAIN defaultShortcutConfigs[call.name])
  => ret = ((IF call.keys = NoArgument THEN platform ELSE call.keys)
              \in defaultShortcutConfigs[call.name].platforms)

\* C14: a second resetShortcut(name) right after the first leaves the store and
\* every resolved shortcut as the first left them; after one call on an editable
\* name the resolved keys are the default keys, the shortcut is not modified and
\* its resolved enabled flag is the one resolved before the call.
C14_ResetIsIdempotent ==
  [][call'.op = "resetShortcut" =>
       LET name == call'.name
           once == userShortcuts'
           twice == resetShortcut(once, name).userShortcuts
       IN  /\ twice = once
           /\ \A n \in RegistryNames : getShortcut(twice, n) = getShortcut(once, n)
           /\ getAllShortcuts(twice) = getAllShortcuts(once)
           /\ defaultShortcutConfigs[name].editable =>
                /\ getShortcut(once, name).key = defaultShortcutConfigs[name].key
                /\ ~isShortcutModified(once, name)
                /\ getShortcut(once, name).enabled
                     = getShortcut(userShortcuts, name).enabled]_vars

\* C14 witness: new_topic was reset while its override was switched off; the
\* override now holds the default keys and is still off.
C14_Witness_ResetDisabledOverride ==
  /\ call.op = "resetShortcut"
  /\ call.name = "new_topic"
  /\ \E i \in DOMAIN userShortcuts :
       /\ userShortcuts[i].name = "new_topic"
       /\ userShortcuts[i].key = defaultShortcutConfigs["new_topic"].key
       /\ ~userShortcuts[i].enabled

\* the names that have an override in the store
OverrideNames(us) == { us[i].name : i \in DOMAIN us }

\* C15: a step of handleKeyDownForShortcut, clearShortcut, resetShortcut or
\* toggleShortcut keeps every name that had an override (it adds an entry or
\* updates one in place, the others untouched); a step of resetAllShortcuts leaves
\* the store empty and every getShortcut(name) equal to the no-override view.
C15_OverridesRemovedOnlyByResetAll ==
  [][/\ call'.op \in ModifyingOps =>
          /\ OverrideNames(userShortcuts) \subseteq OverrideNames(userShortcuts')
          /\ Len(userShortcuts') >= Len(userShortcuts)
          /\ \A i \in DOMAIN userShortcuts :
               userShortcuts[i].name # call'.name => userShortcuts'[i] = userShortcuts[i]
     /\ call'.op = "resetAllShortcuts" =>
          /\ userShortcuts' = <<>>
          /\ \A n \in RegistryNames :
               getShortcut(userShortcuts', n) = getShortcut(initialState.userShortcuts, n)]_vars

\* C15 witness: clearShortcut rewrote the first of two overrides in place.
C15_Witness_UpdatedInPlace ==
  /\ call.op = "clearShortcut"
  /\ call.name = "new_topic"
  /\ Len(userShortcuts) = 2
  /\ userShortcuts[1].name = "new_topic"
  /\ userShortcuts[1].key = <<>>

\* the names useShortcut may be called with: the registry and a name outside it
HotkeyNames == RegistryNames \cup {"not_a_shortcut"}

\* C16: for a name whose resolved shortcut is disabled or missing, getHotkeyConfig
\* gives hotkey 'none' (never the empty string), enabled false and options.enabled
\* false; for an enabled one it gives formatShortcutForHotkey of the resolved keys
\* and enabled true.
C16_DisabledGivesNone ==
  \A name \in HotkeyNames :
    LET config == getHotkeyConfig(userShortcuts, name)
        shortcut == getShortcut(userShortcuts, name)
    IN  IF shortcut = Undefined \/ ~shortcut.enabled
        THEN /\ config.hotkey = "none"
             /\ config.hotkey # ""
             /\ config.enabled = FALSE
             /\ config.options.enabled = FALSE
        ELSE /\ config.hotkey = formatShortcutForHotkey(shortcut.key)
             /\ (name = "search_message" /\ OverridesOf(userShortcuts, name) = {}) =>
                  config.hotkey = IF platform = "mac" THEN "meta+shift+f" ELSE "ctrl+shift+f"
             /\ config.enabled = TRUE
             /\ config.options.enabled = TRUE

\* C16 witness: new_topic holds keys and was switched off by a toggle; its hotkey
\* is the sentinel.
C16_Witness_ToggledOff ==
  /\ call.op = "toggleShortcut"
  /\ call.name = "new_topic"
  /\ getShortcut(userShortcuts, "new_topic").key # <<>>
  /\ ~getShortcut(userShortcuts, "new_topic").enabled
  /\ getHotkeyConfig(userShortcuts, "new_topic").hotkey = "none"

(***************************************************************************)
(* The override store on its own: the four reducers of shortcutsSlice      *)
(* dispatched in any order with any payload.                               *)
(***************************************************************************)
StoreNames == {"new_topic", "mini_window"}

StoreKeys == {<<>>, <<"CommandOrControl", "N">>}

\* the UserShortcutState values dispatched
StoreEntries ==
  { [name |-> name, key |-> key, enabled |-> enabled] :
      name \in StoreNames, key \in StoreKeys, enabled \in BOOLEAN }

SetUserShortcuts ==
  \E payload \in SeqsUpTo(StoreEntries, MaxOverrides) :
    /\ Commit(setUserShortcuts(userShortcuts, payload))
    /\ call' = Call("setUserShortcuts", "", NoEvent, payload)
    /\ ret' = Void

UpdateUserShortcut ==
  \E payload \in StoreEntries :
    /\ Commit(updateUserShortcut(userShortcuts, payload))
    /\ call' = Call("updateUserShortcut", payload.name, NoEvent, payload)
    /\ ret' = Void

ToggleUserShortcut ==
  \E name \in StoreNames :
    /\ Commit(toggleUserShortcut(userShortcuts, name))
    /\ call' = Call("toggleUserShortcut", name, NoEvent, <<>>)
    /\ ret' = Void

ResetUserShortcuts ==
  /\ Commit(resetUserShortcuts(userShortcuts))
  /\ call' = Call("resetUserShortcuts", "", NoEvent, <<>>)
  /\ ret' = Void

NextStore ==
  \/ SetUserShortcuts
  \/ UpdateUserShortcut
  \/ ToggleUserShortcut
  \/ ResetUserShortcuts

SpecStore == Init /\ [][NextStore]_vars

\* C17: after every reducer the persistence collaborator has been handed exactly
\* one list, as long as the store and in its order, whose entries carry the
\* override's name, keys and enabled with system = FALSE and editable = TRUE.
C17_PersistedListEqualsStore ==
  call.op # "none" =>
    /\ Len(apiUpdates) = 1
    /\ Len(apiUpdates[1]) = Len(userShortcuts)
    /\ \A i \in DOMAIN userShortcuts :
         apiUpdates[1][i] =
           [name |-> userShortcuts[i].name, key |-> userShortcuts[i].key,
            enabled |-> userShortcuts[i].enabled, system |-> FALSE, editable |-> TRUE]

\* C17 witness: a toggle flipped the second of two overrides back on and the list
\* sent has both entries.
C17_Witness_ToggleSecondEntry ==
  /\ call.op = "toggleUserShortcut"
  /\ Len(userShortcuts) = 2
  /\ userShortcuts[2].name = call.name
  /\ userShortcuts[1].name # call.name
  /\ userShortcuts[2].key # <<>>
  /\ userShortcuts[2].enabled
  /\ Len(apiUpdates) = 1
  /\ Len(apiUpdates[1]) = 2

\* what the override of name resolves enabled to: its flag, TRUE without one
PriorEnabled(us, name) ==
  IF OverridesOf(us, name) = {} THEN TRUE ELSE getUserShortcutState(us, name).enabled

\* the entries getAllShortcuts() holds for name
ListedAs(us, name) == { s \in Elems(getAllShortcuts(us)) : s.name = name }

\* C18: right after a handleKeyDownForShortcut(event, name) that returned true on
\* an editable name, getShortcut(name) and the entry of getAllShortcuts() for name
\* hold the parsed keys and the enabled flag of the override before the call (TRUE
\* without one); right after clearShortcut(name) on an editable name both hold
\* empty keys.
C18_ReadsSeeTheWrite ==
  [][/\ (/\ call'.op = "handleKeyDownForShortcut"
         /\ ret' = TRUE
         /\ defaultShortcutConfigs[call'.name].editable) =>
          LET name == call'.name
              keys == parseKeyboardEventToShortcut(call'.event)
              read == getShortcut(userShortcuts', name)
          IN  /\ read.key = keys
              /\ read.enabled = PriorEnabled(userShortcuts, name)
              /\ \A s \in ListedAs(userShortcuts', name) : s = read
              /\ isShortcutSupportedOnPlatform(name) => ListedAs(userShortcuts', name) # {}
     /\ (/\ call'.op = "clearShortcut"
         /\ defaultShortcutConfigs[call'.name].editable) =>
          LET name == call'.name
              read == getShortcut(userShortcuts', name)
          IN  /\ read.key = <<>>
              /\ read.enabled = PriorEnabled(userShortcuts, name)
              /\ \A s \in ListedAs(userShortcuts', name) : s = read
              /\ isShortcutSupportedOnPlatform(name) => ListedAs(userShortcuts', name) # {}]_vars

\* C18 witness: a key press was accepted for new_topic while its override was
\* switched off; the read gives the pressed keys, still switched off.
C18_Witness_KeysSetWhileOff ==
  /\ call.op = "handleKeyDownForShortcut"
  /\ call.name = "new_topic"
  /\ ret = TRUE
  /\ getShortcut(userShortcuts, "new_topic").key = parseKeyboardEventToShortcut(call.event)
  /\ getShortcut(userShortcuts, "new_topic").key # defaultShortcutConfigs["new_topic"].key
  /\ ~getShortcut(userShortcuts, "new_topic").enabled

(***************************************************************************)
(* formatShortcutForHotkey as a function of the key sequence and the host. *)
(***************************************************************************)
HotkeyTokens == {"CommandOrControl", "Command", "command", "Shift", "C"}

InitHotkey ==
  /\ platform \in Platforms
  /\ userShortcuts = initialState.userShortcuts
  /\ apiUpdates = <<>>
  /\ call \in { Call("pending", "", NoEvent, key) : key \in SeqsUpTo(HotkeyTokens, MaxFormatKeys) }
  /\ ret = Void

FormatShortcutForHotkey ==
  /\ call.op = "pending"
  /\ call' = [call EXCEPT !.op = "formatShortcutForHotkey"]
  /\ ret' = formatShortcutForHotkey(call.keys)
  /\ UNCHANGED <<platform, userShortcuts, apiUpdates>>

NextHotkey == FormatShortcutForHotkey

SpecHotkey == InitHotkey /\ [][NextHotkey]_vars

\* the three examples of the hotkey format
HotkeyExamples ==
  /\ call.keys = <<"CommandOrControl", "Shift", "C">> =>
       ret = IF platform = "mac" THEN "meta+shift+c" ELSE "ctrl+shift+c"
  /\ call.keys = <<>> => ret = ""

\* C19 as stated: every token is lower-cased, except CommandOrControl, which is
\* 'meta' on Mac and 'ctrl' elsewhere; the tokens are joined with '+'.
C19_LowerCasedAndJoined ==
  call.op = "formatShortcutForHotkey" =>
    /\ ret = Join([i \in DOMAIN call.keys |->
                     IF call.keys[i] = "CommandOrControl"
                     THEN (IF platform = "mac" THEN "meta" ELSE "ctrl")
                     ELSE ToLowerCase(call.keys[i])], "+")
    /\ HotkeyExamples

\* C19 amended: as stated, and Command (also written command) is 'meta' on every
\* platform.
C19_CommandIsMeta ==
  call.op = "formatShortcutForHotkey" =>
    /\ ret = Join([i \in DOMAIN call.keys |->
                     IF call.keys[i] = "CommandOrControl"
                     THEN (IF platform = "mac" THEN "meta" ELSE "ctrl")
                     ELSE IF call.keys[i] \in {"Command", "command"} THEN "meta"
                     ELSE ToLowerCase(call.keys[i])], "+")
    /\ HotkeyExamples

\* C19 witness: Command, Shift, C formatted on Windows.
C19_Witness_CommandOnWindows ==
  /\ call.op = "formatShortcutForHotkey"
  /\ platform = "win"
  /\ call.keys = <<"Command", "Shift", "C">>
  /\ ret = "meta+shift+c"

(***************************************************************************)
(* formatShortcutForDisplay as a function of the key sequence and the host.*)
(***************************************************************************)
PunctuationNames ==
  {"Comma", "Minus", "Equal", "BracketLeft", "BracketRight", "Slash", "Semicolon",
   "Backslash", "Quote"}

ArrowNames == {"ArrowUp", "ArrowDown", "ArrowLeft", "ArrowRight"}

\* every token the switch names, and three it does not: a letter, a letter in
\* lower case, a named key
DisplayTokens ==
  {"CommandOrControl", "Ctrl", "Alt", "Meta", "Shift", "Command", "Cmd", "Control"}
    \cup ArrowNames \cup PunctuationNames \cup {"C", "k", "Escape"}

DisplayKeys ==
  SeqsUpTo(DisplayTokens, MaxDisplayKeys)
    \cup SeqsUpTo({"CommandOrControl", "Shift", "C"}, MaxFormatKeys)

InitDisplay ==
  /\ platform \in Platforms
  /\ userShortcuts = initialState.userShortcuts
  /\ apiUpdates = <<>>
  /\ call \in { Call("pending", "", NoEvent, key) : key \in DisplayKeys }
  /\ ret = Void

FormatShortcutForDisplay ==
  /\ call.op = "pending"
  /\ call' = [call EXCEPT !.op = "formatShortcutForDisplay"]
  /\ ret' = formatShortcutForDisplay(call.keys)
  /\ UNCHANGED <<platform, userShortcuts, apiUpdates>>

NextDisplay == FormatShortcutForDisplay

SpecDisplay == InitDisplay /\ [][NextDisplay]_vars

\* the glyph of a punctuation key name
PunctuationGlyph(k) ==
  CASE k = "Comma" -> ","
    [] k = "Minus" -> "-"
    [] k = "Equal" -> "="
    [] k = "BracketLeft" -> "["
    [] k = "BracketRight" -> "]"
    [] k = "Slash" -> "/"
    [] k = "Semicolon" -> ";"
    [] k = "Backslash" -> "\\"
    [] k = "Quote" -> "'"

\* the arrow of an arrow key name
ArrowGlyph(k) ==
  CASE k = "ArrowUp" -> UpArrow
    [] k = "ArrowDown" -> DownArrow
    [] k = "ArrowLeft" -> LeftArrow
    [] k = "ArrowRight" -> RightArrow

\* the rendering the claim gives the modifiers and the punctuation names; what it
\* gives neither is rendered by rest
RenderedOr(k, rest) ==
  IF k \in {"CommandOrControl", "Command", "Cmd"}
    THEN (IF platform = "mac" THEN CommandSymbol ELSE "Ctrl")
  ELSE IF k \in {"Ctrl", "Control"} THEN (IF platform = "mac" THEN ControlSymbol ELSE "Ctrl")
  ELSE IF k = "Alt" THEN (IF platform = "mac" THEN OptionSymbol ELSE "Alt")
  ELSE IF k = "Shift" THEN (IF platform = "mac" THEN ShiftSymbol ELSE "Shift")
  ELSE IF k = "Meta" /\ platform = "win" THEN "Win"
  ELSE IF k = "Meta" /\ platform = "linux" THEN "Super"
  ELSE IF k \in PunctuationNames THEN PunctuationGlyph(k)
  ELSE rest

\* the example of the display format
DisplayExample ==
  (call.keys = <<"CommandOrControl", "Shift", "C">> /\ platform = "mac")
    => ret = CommandSymbol \o " + " \o ShiftSymbol \o " + C"

\* C20 as stated: the tokens are joined with ' + '; the modifiers and the
\* punctuation names render as the claim lists them, every other token with its
\* first letter capitalized.
C20_OthersCapitalized ==
  call.op = "formatShortcutForDisplay" =>
    /\ ret = Join([i \in DOMAIN call.keys |->
                     RenderedOr(call.keys[i], Capitalize(call.keys[i]))], " + ")
    /\ DisplayExample

\* C20 amended: as stated, and Meta on Mac renders as the command symbol and the
\* four arrow key names as arrows; only what remains is capitalized.
C20_ArrowsAndMacMeta ==
  call.op = "formatShortcutForDisplay" =>
    /\ ret = Join([i \in DOMAIN call.keys |->
                     RenderedOr(call.keys[i],
                       IF call.keys[i] = "Meta" THEN CommandSymbol
                       ELSE IF call.keys[i] \in ArrowNames THEN ArrowGlyph(call.keys[i])
                       ELSE Capitalize(call.keys[i]))], " + ")
    /\ DisplayExample

\* C20 witness: Meta, ArrowUp formatted on Mac.
C20_Witness_MetaArrowOnMac ==
  /\ call.op = "formatShortcutForDisplay"
  /\ platform = "mac"
  /\ call.keys = <<"Meta", "ArrowUp">>
  /\ ret = CommandSymbol \o " + " \o UpArrow

\* the names of a list of shortcuts, in its order
NameList(shortcuts) == [i \in DOMAIN shortcuts |-> shortcuts[i].name]

C22_ToggleChangesOnlyEnabled ==
  [][call'.op = "toggleShortcut" =>
       LET name == call'.name
           before == getShortcut(userShortcuts, name)
           after == getShortcut(userShortcuts', name)
           twice == toggleShortcut(userShortcuts', name).userShortcuts
       IN  /\ after.key = before.key
           /\ after.enabled = ~before.enabled
           /\ \A n \in RegistryNames \ {name} :
                getShortcut(userShortcuts', n) = getShortcut(userShortcuts, n)
           /\ getShortcut(twice, name) = before]_vars

(***************************************************************************)
(* The override store edited entry by entry: updateUserShortcut,           *)
(* toggleUserShortcut and resetUserShortcuts from the empty store.         *)
(***************************************************************************)
NextStoreEdits ==
  \/ UpdateUserShortcut
  \/ ToggleUserShortcut
  \/ ResetUserShortcuts

SpecStoreEdits == Init /\ [][NextStoreEdits]_vars

\* C23: the store never holds two overrides with the same name.
C23_OneOverridePerName ==
  \A i, j \in DOMAIN userShortcuts :
    userShortcuts[i].name = userShortcuts[j].name => i = j

\* C23 witness: updateUserShortcut was dispatched for the name of the first of two
\* overrides; the store still has two entries and the first is the payload.
C23_Witness_FirstReplacedInPlace ==
  /\ call.op = "updateUserShortcut"
  /\ Len(userShortcuts) = 2
  /\ userShortcuts[1].name = call.name
  /\ userShortcuts[1] = call.keys
  /\ userShortcuts[2].name # call.name

\* C24: for every registry name, getHotkeyConfig never gives enabled = TRUE with
\* the empty hotkey string; a shortcut whose resolved keys are empty is given as
\* disabled with the hotkey 'none'.
C24_NoEnabledEmptyHotkey ==
  \A name \in RegistryNames :
    LET config == getHotkeyConfig(userShortcuts, name) IN
      /\ ~(config.enabled /\ config.hotkey = "")
      /\ getShortcut(userShortcuts, name).key = <<>> =>
           (config.hotkey = "none" /\ ~config.enabled /\ ~config.options.enabled)

(***************************************************************************)
(* Key presses in the shortcut input of the settings page, on the keys the *)
(* default table binds by their character: handleKeyDownForShortcut over   *)
(* and over, for two editable shortcuts.                                   *)
(***************************************************************************)
PunctuationEvents ==
  { KeyEvent(TRUE, FALSE, FALSE, FALSE, "Equal"),
    KeyEvent(TRUE, FALSE, FALSE, FALSE, "BracketLeft"),
    KeyEvent(TRUE, FALSE, FALSE, FALSE, "Minus"),
    KeyEvent(TRUE, FALSE, FALSE, FALSE, "KeyK"),
    KeyEvent(FALSE, FALSE, TRUE, FALSE, "Equal"),
    KeyEvent(FALSE, FALSE, TRUE, FALSE, "BracketLeft"),
    KeyEvent(TRUE, FALSE, FALSE, TRUE, "Equal") }

InputNames == {"new_topic", "clear_topic"}

HandleKeyDown ==
  \E event \in PunctuationEvents, name \in InputNames :
    \E r \in {handleKeyDownForShortcut(userShortcuts, event, name)} :
      /\ Commit(r.out)
      /\ call' = Call("handleKeyDownForShortcut", name, event, <<>>)
      /\ ret' = r.ret

NextInput == HandleKeyDown

SpecInput == Init /\ [][NextInput]_vars

\* the shortcuts of getAllShortcuts(), other than name, whose non-empty keys are
\* displayed as keys is
SameDisplay(us, keys, name) ==
  { s \in Elems(getAllShortcuts(us)) :
      /\ s.name # name
      /\ s.key # <<>>
      /\ formatShortcutForDisplay(s.key) = formatShortcutForDisplay(keys) }

\* C25: a handleKeyDownForShortcut(event, name) step whose parsed keys are
\* displayed like the non-empty keys of another shortcut of getAllShortcuts()
\* returns false.
C25_SameDisplayIsRefused ==
  [][(/\ call'.op = "handleKeyDownForShortcut"
      /\ SameDisplay(userShortcuts, parseKeyboardEventToShortcut(call'.event), call'.name) # {})
       => ret' = FALSE]_vars

====
